---- MODULE Spec2Model ----
(***************************************************************************)
(* Model of baseline/vcp/model/layers.py: the layer-name registry           *)
(* (_LAYER_UIDS, get_layer_uid), the matrix-product helper (dot), the base  *)
(* class Layer and the layers Dense, GCN and MLPDecoder.                    *)
(*                                                                          *)
(* Python strings that the code builds or transforms (class names, layer    *)
(* names, registry keys) are sequences of one-character strings, so that    *)
(* lower(), str() and + are computed.  A tensor is a record                 *)
(* [shape, data] with data in row-major order; a sparse tensor is a record  *)
(* [dense_shape, entries] in coordinate form.  Python's 0-based indices are *)
(* kept as values; a sequence s is read at index i as s[i + 1].             *)
(***************************************************************************)
EXTENDS Integers, Sequences, FiniteSets, TLC

(* ------------------------------ bounds --------------------------------- *)
\* constructor calls in one run of the assembly model
MaxLayers == 2
\* direct calls of get_layer_uid in one run of the registry model
MaxCalls == 4
\* longest support list / largest num_support given to GCN
MaxSupport == 2
\* longest list of candidate pairs given to MLPDecoder
MaxPairs == 2
\* constructions per execution context in the concurrent model
MaxPerThread == 2

(* ------------------------------ strings -------------------------------- *)
UpperChars == <<"A","B","C","D","E","F","G","H","I","J","K","L","M",
                "N","O","P","Q","R","S","T","U","V","W","X","Y","Z">>
LowerChars == <<"a","b","c","d","e","f","g","h","i","j","k","l","m",
                "n","o","p","q","r","s","t","u","v","w","x","y","z">>
DigitChars == <<"0","1","2","3","4","5","6","7","8","9">>

\* str.lower() on one character
LowerChar(c) ==
  IF \E i \in 1..Len(UpperChars) : UpperChars[i] = c
  THEN LowerChars[CHOOSE i \in 1..Len(UpperChars) : UpperChars[i] = c]
  ELSE c

\* str.lower()
lower(s) == [i \in 1..Len(s) |-> LowerChar(s[i])]

\* str(n) for an integer n >= 0
RECURSIVE str(_)
str(n) == IF n < 10 THEN <<DigitChars[n + 1]>>
          ELSE str(n \div 10) \o <<DigitChars[(n % 10) + 1]>>

\* self.__class__.__name__ of the four classes
ClassName(cls) ==
  CASE cls = "Layer"      -> <<"L","a","y","e","r">>
    [] cls = "Dense"      -> <<"D","e","n","s","e">>
    [] cls = "GCN"        -> <<"G","C","N">>
    [] cls = "MLPDecoder" -> <<"M","L","P","D","e","c","o","d","e","r">>

Classes == {"Layer", "Dense", "GCN", "MLPDecoder"}

(* ------------------------------ registry ------------------------------- *)
\* a slip: the augmented assignment stores the value it read
Increment_same(v) == v

\* _LAYER_UIDS[layer_name] += 1 : the value stored by the augmented assignment
Increment(v) == v + 1

\* a slip: every name is taken for a new one
IsNew_always(uids, layer_name) == TRUE

\* layer_name not in _LAYER_UIDS
IsNew(uids, layer_name) == layer_name \notin DOMAIN uids

\* _LAYER_UIDS[layer_name] = v
SetItem(uids, layer_name, v) ==
  IF layer_name \in DOMAIN uids THEN [uids EXCEPT ![layer_name] = v]
  ELSE uids @@ (layer_name :> v)

\* get_layer_uid(layer_name): the dictionary after the call and the value returned
get_layer_uid(uids, layer_name) ==
  IF IsNew(uids, layer_name)
  THEN [uids |-> SetItem(uids, layer_name, 1), ret |-> 1]
  ELSE LET stored == SetItem(uids, layer_name, Increment(uids[layer_name]))
       IN  [uids |-> stored, ret |-> stored[layer_name]]

(* ------------------------------ tensors -------------------------------- *)
RECURSIVE Product(_)
Product(s) == IF s = <<>> THEN 1 ELSE Head(s) * Product(Tail(s))

Tensor(shape, data) == [shape |-> shape, data |-> data]
Rank(t) == Len(t.shape)
\* entry (i, j) of a rank-2 tensor, 0-based
At(t, i, j) == t.data[i * t.shape[2] + j + 1]

IsError(v) == "error" \in DOMAIN v
Raise(kind) == [error |-> kind]
IsSparse(v) == "entries" \in DOMAIN v

RECURSIVE SumTo(_, _)
\* sum of f[0] .. f[n-1]
SumTo(f, n) == IF n = 0 THEN 0 ELSE SumTo(f, n - 1) + f[n - 1]

\* tf.matmul(x, y) on rank-2 tensors
tf_matmul(x, y) ==
  IF IsSparse(x) \/ IsSparse(y) THEN Raise("TypeError")
  ELSE IF x.shape[2] # y.shape[1] THEN Raise("ShapeError")
  ELSE LET n == x.shape[1]
           k == x.shape[2]
           m == y.shape[2]
       IN  Tensor(<<n, m>>,
                  [p \in 1..(n * m) |->
                     LET i == (p - 1) \div m
                         j == (p - 1) % m
                     IN  SumTo([l \in 0..(k - 1) |-> At(x, i, l) * At(y, l, j)], k)])

RECURSIVE SparseRowDot(_, _, _, _)
\* sum of v * b[c, j] over the stored entries (r, c, v) of row i
SparseRowDot(entries, b, i, j) ==
  IF entries = <<>> THEN 0
  ELSE LET e == Head(entries)
       IN  (IF e[1] = i THEN e[3] * At(b, e[2], j) ELSE 0)
           + SparseRowDot(Tail(entries), b, i, j)

\* tf.sparse_tensor_dense_matmul(sp_a, b)
tf_sparse_tensor_dense_matmul(sp_a, b) ==
  IF ~IsSparse(sp_a) \/ IsSparse(b) THEN Raise("TypeError")
  ELSE IF sp_a.dense_shape[2] # b.shape[1] THEN Raise("ShapeError")
  ELSE LET n == sp_a.dense_shape[1]
           m == b.shape[2]
       IN  Tensor(<<n, m>>,
                  [p \in 1..(n * m) |->
                     SparseRowDot(sp_a.entries, b, (p - 1) \div m, (p - 1) % m)])

\* dot(x, y, sparse)
dot(x, y, sparse) ==
  IF sparse THEN tf_sparse_tensor_dense_matmul(x, y) ELSE tf_matmul(x, y)

\* tf.nn.dropout(x, keep_prob): keep_prob is given in percent; mask[p] = 1
\* where the random draw keeps entry p.  With keep_prob = 1 every entry is kept.
tf_nn_dropout(x, keep_pct, mask) ==
  IF IsSparse(x) THEN Raise("TypeError")
  ELSE Tensor(x.shape,
              [p \in 1..Len(x.data) |->
                 IF keep_pct = 100 \/ mask[p] = 1
                 THEN (x.data[p] * 100) \div keep_pct ELSE 0])

\* x + b with b of rank 1 broadcast over the last dimension
\* (x_n += bias, tf.nn.bias_add)
BiasAdd(x, b) ==
  LET m == b.shape[1]
  IN  Tensor(x.shape, [p \in 1..Len(x.data) |-> x.data[p] + b.data[((p - 1) % m) + 1]])

\* tf.add_n(ts) for a non-empty list of tensors of one shape
RECURSIVE tf_add_n(_)
tf_add_n(ts) ==
  IF Len(ts) = 1 THEN ts[1]
  ELSE LET rest == tf_add_n(Tail(ts))
       IN  Tensor(ts[1].shape, [p \in 1..Len(ts[1].data) |-> ts[1].data[p] + rest.data[p]])

\* tf.gather(params, indices): rows of a rank-2 tensor
tf_gather(params, indices) ==
  LET m == params.shape[2]
  IN  Tensor(<<Len(indices), m>>,
             [p \in 1..(Len(indices) * m) |->
                At(params, indices[((p - 1) \div m) + 1], (p - 1) % m)])

\* tf.abs(a - b), element-wise on tensors of one shape
AbsDiff(a, b) ==
  Tensor(a.shape,
         [p \in 1..Len(a.data) |->
            IF a.data[p] >= b.data[p] THEN a.data[p] - b.data[p]
            ELSE b.data[p] - a.data[p]])

\* tf.squeeze(t): every dimension of size 1 is removed
tf_squeeze(t) == Tensor(SelectSeq(t.shape, LAMBDA d : d # 1), t.data)

\* the activation functions the callers pass: tf.nn.relu and lambda x: x
Act(act, t) ==
  IF act = "relu"
  THEN Tensor(t.shape, [p \in 1..Len(t.data) |-> IF t.data[p] > 0 THEN t.data[p] ELSE 0])
  ELSE t

\* tf.layers.batch_normalization(x, training): a function of the engine,
\* kept as an application to its arguments
tf_layers_batch_normalization(x, training) ==
  [op |-> "batch_normalization", x |-> x, training |-> training]

(* --------------------- parameter initializers -------------------------- *)
\* weight_variable_random_uniform(input_dim, output_dim): a tensor of that shape;
\* draw stands for the random draw
weight_variable_random_uniform(input_dim, output_dim, draw) ==
  Tensor(<<input_dim, output_dim>>,
         [p \in 1..(input_dim * output_dim) |-> ((p + draw) % 3) - 1])

\* weight_variable_he_init(input_dim, output_dim)
weight_variable_he_init(input_dim, output_dim, draw) ==
  Tensor(<<input_dim, output_dim>>,
         [p \in 1..(input_dim * output_dim) |-> 2 * ((p + draw) % 2) - 1])

\* bias_variable_zero(shape)
bias_variable_zero(shape) == Tensor(shape, [p \in 1..Product(shape) |-> 0])

(* ------------------------------ events --------------------------------- *)
\* what an operation does to the engine and the registry, in order
Event(kind, tag) == [kind |-> kind, tag |-> tag]
UidEvent == Event("get_layer_uid", "")
VariableEvent(name) == Event("variable", name)
HistogramEvent(tag) == Event("histogram", tag)
LogVarsEvent == Event("_log_vars", "")
CallEvent == Event("_call", "")

\* self.vars, a dict in insertion order: a sequence of [key, val]
Get(vars, key) == vars[CHOOSE i \in 1..Len(vars) : vars[i].key = key].val
Put(vars, key, val) == Append(vars, [key |-> key, val |-> val])

(* ------------------------------ Layer ---------------------------------- *)
\* a slip: the flag of the input is accepted as an option
allowed_kwargs_open == {"name", "logging", "sparse_inputs"}

allowed_kwargs == {"name", "logging"}

\* what kwargs.get('name') gives the test `if not name`
NameGiven(kwargs) == "name" \in kwargs.keys /\ kwargs.name # <<>>

\* a slip: the suffix is the counter before the call
AutoName_stale(layer, uid) == layer \o <<"_">> \o str(uid - 1)

\* name = layer + '_' + str(uid)
AutoName(layer, uid) == layer \o <<"_">> \o str(uid)

\* a slip: the name is drawn before the options are checked
Layer_init_uid_first(cls, kwargs, uids) ==
  LET layer == lower(ClassName(cls))
      uid   == get_layer_uid(uids, layer)
      drawn == IF NameGiven(kwargs) THEN uids ELSE uid.uids
      name  == IF NameGiven(kwargs) THEN kwargs.name ELSE AutoName(layer, uid.ret)
      logging == IF "logging" \in kwargs.keys THEN kwargs.logging ELSE FALSE
  IN  IF \E kwarg \in kwargs.keys : kwarg \notin allowed_kwargs
      THEN [raised |-> "AssertionError", uids |-> drawn,
            events |-> IF NameGiven(kwargs) THEN <<>> ELSE <<UidEvent>>]
      ELSE [raised |-> "", uids |-> drawn,
            events |-> IF NameGiven(kwargs) THEN <<>> ELSE <<UidEvent>>,
            self   |-> [cls |-> cls, name |-> name, vars |-> <<>>,
                        logging |-> logging, sparse_inputs |-> FALSE]]

\* Layer.__init__(self, **kwargs) for an instance of class cls, with the
\* registry uids: the exception raised (or ""), the registry afterwards, the
\* new instance and the events
Layer_init(cls, kwargs, uids) ==
  IF \E kwarg \in kwargs.keys : kwarg \notin allowed_kwargs
  THEN [raised |-> "AssertionError", uids |-> uids, events |-> <<>>]
  ELSE LET layer == lower(ClassName(cls))
           uid   == get_layer_uid(uids, layer)
           name  == IF NameGiven(kwargs) THEN kwargs.name ELSE AutoName(layer, uid.ret)
           logging == IF "logging" \in kwargs.keys THEN kwargs.logging ELSE FALSE
       IN  [raised |-> "",
            uids   |-> IF NameGiven(kwargs) THEN uids ELSE uid.uids,
            events |-> IF NameGiven(kwargs) THEN <<>> ELSE <<UidEvent>>,
            self   |-> [cls |-> cls, name |-> name, vars |-> <<>>,
                        logging |-> logging, sparse_inputs |-> FALSE]]

\* Layer._log_vars(self)
Layer_log_vars(self) ==
  <<LogVarsEvent>> \o
  [i \in 1..Len(self.vars) |-> HistogramEvent("/vars/" \o self.vars[i].key)]

\* if self.logging: self._log_vars()
LogVarsIfLogging(self) == IF self.logging THEN Layer_log_vars(self) ELSE <<>>

\* Layer._call(self, inputs)
Layer_call(self, inputs) == inputs

(* ------------------------------ Dense ---------------------------------- *)
\* Dense.__init__
Dense_init(input_dim, output_dim, is_train, dropout, act, bias, batch_norm, kwargs, uids, draw) ==
  LET base == Layer_init("Dense", kwargs, uids)
  IN  IF base.raised # "" THEN base
      ELSE LET vars1 == Put(base.self.vars, "weights",
                            weight_variable_random_uniform(input_dim, output_dim, draw))
               vars2 == IF bias
                        THEN Put(vars1, "node_bias", bias_variable_zero(<<output_dim>>))
                        ELSE vars1
               self  == [base.self EXCEPT !.vars = vars2] @@
                        [bias |-> bias, batch_norm |-> batch_norm, is_train |-> is_train,
                         dropout |-> dropout, act |-> act]
           IN  [raised |-> "", uids |-> base.uids, self |-> self,
                events |-> base.events \o <<VariableEvent("weights")>>
                           \o (IF bias THEN <<VariableEvent("bias_n")>> ELSE <<>>)
                           \o LogVarsIfLogging(self)]

\* a slip: the bias is added whenever the layer has one
DenseAddsBias_always(self) == self.bias

\* if self.bias and not self.batch_norm
DenseAddsBias(self) == self.bias /\ ~self.batch_norm

\* Dense._call(self, input); mask is the draw of the dropout
Dense_call(self, input, mask) ==
  LET x_d == tf_nn_dropout(input, 100 - self.dropout, mask)
      x_w == tf_matmul(x_d, Get(self.vars, "weights"))
      x_n == IF DenseAddsBias(self) THEN BiasAdd(x_w, Get(self.vars, "node_bias"))
             ELSE x_w
      n_outputs == Act(self.act, x_n)
  IN  IF self.batch_norm
      THEN tf_layers_batch_normalization(n_outputs, self.is_train)
      ELSE n_outputs

(* ------------------------------- GCN ----------------------------------- *)
\* name='weights_n_%d' % i
WeightsName(i) ==
  CASE i = 0 -> "weights_n_0" [] i = 1 -> "weights_n_1" [] i = 2 -> "weights_n_2"
    [] i = 3 -> "weights_n_3" [] OTHER -> "weights_n_k"

\* init_func chosen by init
init_func(init, input_dim, output_dim, draw) ==
  IF init = "def" THEN weight_variable_random_uniform(input_dim, output_dim, draw)
  ELSE weight_variable_he_init(input_dim, output_dim, draw)

\* GCN.__init__
GCN_init(input_dim, output_dim, support, num_support, is_train, dropout, act, bias, batch_norm, init, kwargs, uids, draw) ==
  LET base == Layer_init("GCN", kwargs, uids)
  IN  IF base.raised # "" THEN base
      ELSE IF init \notin {"def", "he"}
      THEN [raised |-> "AssertionError", uids |-> base.uids, events |-> base.events]
      ELSE LET weights == [i \in 1..num_support |->
                             init_func(init, input_dim, output_dim, draw + i - 1)]
               vars1 == Put(base.self.vars, "weights", weights)
               vars2 == IF bias
                        THEN Put(vars1, "bias_n", bias_variable_zero(<<output_dim>>))
                        ELSE vars1
               self  == [base.self EXCEPT !.vars = vars2] @@
                        [weights |-> weights, dropout |-> dropout,
                         batch_norm |-> batch_norm, is_train |-> is_train,
                         bias |-> bias, support |-> support, act |-> act]
           IN  [raised |-> "", uids |-> base.uids, self |-> self,
                events |-> base.events
                           \o [i \in 1..num_support |-> VariableEvent(WeightsName(i - 1))]
                           \o (IF bias THEN <<VariableEvent("bias_n")>> ELSE <<>>)
                           \o LogVarsIfLogging(self)]

\* a slip: every support is multiplied with the first weight
WeightFor_first(self, i) == self.weights[1]

\* the weight the loop reads for support i: self.weights[i]
WeightFor(self, i) == self.weights[i + 1]

\* supports_n.append(h), for the rest of the loop
GCN_cons(h, rest) ==
  IF IsError(h) THEN [error |-> h.error, list |-> <<>>]
  ELSE IF rest.error # "" THEN rest
  ELSE [error |-> "", list |-> <<h>> \o rest.list]

RECURSIVE GCN_supports(_, _, _)
RECURSIVE GCN_iteration(_, _, _, _)
\* one pass of the loop of GCN._call, with tmp_n = dot(x_n, wn, ...)
GCN_iteration(self, x_n, i, tmp_n) ==
  IF IsError(tmp_n) THEN [error |-> tmp_n.error, list |-> <<>>]
  ELSE GCN_cons(tf_sparse_tensor_dense_matmul(self.support[i + 1], tmp_n),
                GCN_supports(self, x_n, i + 1))

\* the loop of GCN._call from index i on: the list supports_n, or the
\* exception that ends the loop
GCN_supports(self, x_n, i) ==
  IF i >= Len(self.support) THEN [error |-> "", list |-> <<>>]
  ELSE IF i >= Len(self.weights) THEN [error |-> "IndexError", list |-> <<>>]
  ELSE GCN_iteration(self, x_n, i, dot(x_n, WeightFor(self, i), self.sparse_inputs))

\* z_n = tf.add_n(supports_n)
GCN_sum(supports_n) ==
  IF supports_n.error # "" THEN Raise(supports_n.error)
  ELSE tf_add_n(supports_n.list)

\* z_n of GCN._call, before bias and activation
GCN_z(self, input, mask) ==
  GCN_sum(GCN_supports(self, tf_nn_dropout(input, 100 - self.dropout, mask), 0))

\* GCN._call from z_n on: bias, activation, normalization
GCN_output(self, z_n) ==
  IF IsError(z_n) THEN z_n
  ELSE LET z_b == IF self.bias THEN BiasAdd(z_n, Get(self.vars, "bias_n")) ELSE z_n
           n_outputs == Act(self.act, z_b)
       IN  IF self.batch_norm
           THEN tf_layers_batch_normalization(n_outputs, self.is_train)
           ELSE n_outputs

\* GCN._call(self, input)
GCN_call(self, input, mask) == GCN_output(self, GCN_z(self, input, mask))

(* ---------------------------- MLPDecoder ------------------------------- *)
\* MLPDecoder.__init__
MLPDecoder_init(num_classes, r_indices, c_indices, input_dim, dropout, act, n_out, use_bias, kwargs, uids, draw) ==
  LET base == Layer_init("MLPDecoder", kwargs, uids)
  IN  IF base.raised # "" THEN base
      ELSE LET vars1 == Put(base.self.vars, "weights",
                            weight_variable_random_uniform(input_dim, n_out, draw))
               vars2 == IF use_bias
                        THEN Put(vars1, "bias", bias_variable_zero(<<n_out>>))
                        ELSE vars1
               self  == [base.self EXCEPT !.vars = vars2] @@
                        [r_indices |-> r_indices, c_indices |-> c_indices,
                         dropout |-> dropout, act |-> act, n_out |-> n_out,
                         use_bias |-> use_bias]
           IN  [raised |-> "", uids |-> base.uids, self |-> self,
                events |-> base.events \o <<VariableEvent("weights")>>
                           \o (IF use_bias THEN <<VariableEvent("bias")>> ELSE <<>>)
                           \o LogVarsIfLogging(self)]

\* outputs of MLPDecoder._call before the squeeze: the product, plus the bias
MLPDecoder_product(self, inputs, mask) ==
  LET node_inputs == tf_nn_dropout(inputs, 100 - self.dropout, mask)
      row_inputs  == tf_gather(node_inputs, self.r_indices)
      col_inputs  == tf_gather(node_inputs, self.c_indices)
      diff        == AbsDiff(row_inputs, col_inputs)
      outputs     == tf_matmul(diff, Get(self.vars, "weights"))
  IN  IF self.use_bias THEN BiasAdd(outputs, Get(self.vars, "bias")) ELSE outputs

\* if self.n_out == 1: outputs = tf.squeeze(outputs)
SqueezeIfSingle(self, outputs) ==
  IF self.n_out = 1 THEN tf_squeeze(outputs) ELSE outputs

\* MLPDecoder._call(self, inputs)
MLPDecoder_call(self, inputs, mask) ==
  Act(self.act, SqueezeIfSingle(self, MLPDecoder_product(self, inputs, mask)))

(* ---------------------------- invocation ------------------------------- *)
\* self._call(input), by the class of self
Core(self, input, mask) ==
  CASE self.cls = "Layer"      -> Layer_call(self, input)
    [] self.cls = "Dense"      -> Dense_call(self, input, mask)
    [] self.cls = "GCN"        -> GCN_call(self, input, mask)
    [] self.cls = "MLPDecoder" -> MLPDecoder_call(self, input, mask)

\* the body shared by the three __call__ methods: the input histogram if
\* logInput, the core computation with result outputs, the output histogram
\* named tag if logging
Wrapped(self, logInput, tag, outputs) ==
  IF IsError(outputs)
  THEN [raised |-> outputs.error,
        events |-> (IF logInput THEN <<HistogramEvent("/input")>> ELSE <<>>)
                   \o <<CallEvent>>]
  ELSE [raised |-> "", ret |-> outputs,
        events |-> (IF logInput THEN <<HistogramEvent("/input")>> ELSE <<>>)
                   \o <<CallEvent>>
                   \o (IF self.logging THEN <<HistogramEvent(tag)>> ELSE <<>>)]

\* Layer.__call__(self, input), inherited by MLPDecoder
Layer_wrapper(self, input, mask) ==
  Wrapped(self, self.logging /\ ~self.sparse_inputs, "/outputs", Core(self, input, mask))

\* a slip: Dense checks the flag as the base class does
Dense_wrapper_flag(self, input, mask) ==
  Wrapped(self, self.logging /\ ~self.sparse_inputs, "/outputs_n",
          Core(self, input, mask))

\* Dense.__call__(self, input)
Dense_wrapper(self, input, mask) ==
  Wrapped(self, self.logging, "/outputs_n", Core(self, input, mask))

\* GCN.__call__(self, input)
GCN_wrapper(self, input, mask) ==
  Wrapped(self, self.logging /\ ~self.sparse_inputs, "/outputs_n",
          Core(self, input, mask))

\* layer(input)
Invocation(self, input, mask) ==
  CASE self.cls = "Dense" -> Dense_wrapper(self, input, mask)
    [] self.cls = "GCN"   -> GCN_wrapper(self, input, mask)
    [] OTHER              -> Layer_wrapper(self, input, mask)

(* ------------------------------- state --------------------------------- *)
VARIABLES
  LAYER_UIDS,   \* the module-level dictionary _LAYER_UIDS
  calls,        \* the direct calls of get_layer_uid so far: [name, ret]
  auto_named,   \* the layers the registry has named, in order: [cls, name]
  built,        \* the number of constructor calls so far
  self,         \* the layer the caller constructed last
  last,         \* the last operation: [op, args, raised, events]
  input,        \* the arguments of the last invocation
  mask,
  outputs,      \* what the last invocation returned
  pc,           \* concurrent construction: where each context stands
  local,        \* concurrent construction: each context's class, layer_name, value read
  made,         \* concurrent construction: the names given, [ctx, k, cls, name]
  overlapped    \* concurrent construction: two get_layer_uid calls were in progress at once

vars == <<LAYER_UIDS, calls, auto_named, built, self, last, input, mask, outputs,
          pc, local, made, overlapped>>

concVars == <<pc, local, made, overlapped>>

Contexts == {1, 2}
NoLayer == [cls |-> "None"]
NoKwargs == [keys |-> {}, name |-> <<>>, logging |-> FALSE]
NoTensor == [none |-> TRUE]
NoArgs == [cls |-> "", kwargs |-> NoKwargs, init |-> ""]
Last(op, args, raised, events) ==
  [op |-> op, args |-> args, raised |-> raised, events |-> events]

InitConc ==
  /\ pc = [c \in Contexts |-> "idle"]
  /\ local = [c \in Contexts |-> [cls |-> "", layer_name |-> <<>>, read |-> 0]]
  /\ made = {}
  /\ overlapped = FALSE

\* the module has just been imported: _LAYER_UIDS = {}
Init ==
  /\ LAYER_UIDS = <<>>
  /\ calls = <<>>
  /\ auto_named = <<>>
  /\ built = 0
  /\ self = NoLayer
  /\ last = Last("import", NoArgs, "", <<>>)
  /\ input = NoTensor
  /\ mask = NoTensor
  /\ outputs = NoTensor
  /\ InitConc

(* ------------------------------ inputs --------------------------------- *)
\* the keyword arguments a caller passes: keys is the set of names given
KwargsSet ==
  { [keys |-> ks, name |-> IF "name" \in ks THEN n ELSE <<>>,
     logging |-> "logging" \in ks] :
      ks \in SUBSET {"name", "logging", "sparse_inputs"},
      n \in {<<>>, <<"e","n","c">>} }

TensorsOf(shape, vals) == { Tensor(shape, d) : d \in [1..Product(shape) -> vals] }
Ones(n) == [p \in 1..n |-> 1]

SparseTensor(dense_shape, entries) == [dense_shape |-> dense_shape, entries |-> entries]
\* 2 x 2 supports: the identity, an edge 0 -> 1 with self-loops, the swap, all ones
Identity == SparseTensor(<<2, 2>>, << <<0, 0, 1>>, <<1, 1, 1>> >>)
Adjacencies ==
  << Identity,
     SparseTensor(<<2, 2>>, << <<0, 0, 1>>, <<0, 1, 1>>, <<1, 1, 1>> >>),
     SparseTensor(<<2, 2>>, << <<0, 1, 1>>, <<1, 0, 1>> >>),
     SparseTensor(<<2, 2>>, << <<0, 0, 1>>, <<0, 1, 1>>, <<1, 0, 1>>, <<1, 1, 1>> >>) >>

\* the support list of length n the assembly model passes
SupportOfLen(n) == [i \in 1..n |-> Adjacencies[((i - 1) % Len(Adjacencies)) + 1]]

\* node features the assembly model feeds: 2 nodes, 2 features
SampleInputs == { Tensor(<<2, 2>>, <<1, -1, 0, 2>>), Tensor(<<2, 2>>, <<0, 1, 1, 0>>) }

(* ------------------------ registry model (RegSpec) --------------------- *)
RegistryKeys == {<<>>} \cup { lower(ClassName(c)) : c \in Classes }

\* get_layer_uid(layer_name) called directly
CallUid(layer_name) ==
  /\ Len(calls) < MaxCalls
  /\ LET r == get_layer_uid(LAYER_UIDS, layer_name)
     IN  /\ LAYER_UIDS' = r.uids
         /\ calls' = Append(calls, [name |-> layer_name, ret |-> r.ret])
         /\ last' = Last("get_layer_uid", NoArgs, "", <<UidEvent>>)
  /\ UNCHANGED <<auto_named, built, self, input, mask, outputs, concVars>>

NextReg == \E layer_name \in RegistryKeys : CallUid(layer_name)

RegSpec == Init /\ [][NextReg]_vars

(* ------------------------ assembly model (Spec) ------------------------ *)
\* the caller receives the result r of constructing a layer of class cls
Constructed(cls, kwargs, init, r) ==
  /\ built < MaxLayers
  /\ built' = built + 1
  /\ LAYER_UIDS' = r.uids
  /\ last' = Last("construct", [cls |-> cls, kwargs |-> kwargs, init |-> init],
                 r.raised, r.events)
  /\ IF r.raised = ""
     THEN /\ self' = r.self
          /\ auto_named' = IF NameGiven(kwargs) THEN auto_named
                           ELSE Append(auto_named, [cls |-> cls, name |-> r.self.name])
     ELSE UNCHANGED <<self, auto_named>>
  /\ input' = NoTensor
  /\ mask' = NoTensor
  /\ outputs' = NoTensor
  /\ UNCHANGED <<calls, concVars>>

\* Layer(**kwargs)
ConstructLayer ==
  \E kwargs \in KwargsSet :
    Constructed("Layer", kwargs, "", Layer_init("Layer", kwargs, LAYER_UIDS))

\* Dense(2, 1, is_train, bias=..., **kwargs)
ConstructDense ==
  \E kwargs \in KwargsSet, bias \in BOOLEAN :
    Constructed("Dense", kwargs, "",
                Dense_init(2, 1, TRUE, 0, "relu", bias, FALSE, kwargs, LAYER_UIDS, 0))

\* GCN(2, 1, support, num_support, is_train, init=..., **kwargs); the other
\* init values are tried with one support
ConstructGCN ==
  \E kwargs \in KwargsSet, n \in 1..MaxSupport, num_support \in 1..MaxSupport,
     init \in {"def", "he", "xavier"} :
    /\ init = "def" \/ (n = 1 /\ num_support = 1)
    /\ Constructed("GCN", kwargs, init,
                   GCN_init(2, 1, SupportOfLen(n), num_support, TRUE, 0, "relu", FALSE,
                            FALSE, init, kwargs, LAYER_UIDS, 0))

\* MLPDecoder(num_classes, r_indices, c_indices, 2, n_out=..., **kwargs)
ConstructMLPDecoder ==
  \E kwargs \in KwargsSet, n_out \in 1..2 :
    Constructed("MLPDecoder", kwargs, "",
                MLPDecoder_init(2, <<0, 1>>, <<1, 0>>, 2, 0, "identity", n_out, FALSE,
                                kwargs, LAYER_UIDS, 0))

\* layer.sparse_inputs = True, set by the caller that feeds sparse features
SetSparseInputs ==
  /\ self # NoLayer
  /\ ~self.sparse_inputs
  /\ self' = [self EXCEPT !.sparse_inputs = TRUE]
  /\ last' = Last("set_sparse_inputs", NoArgs, "", <<>>)
  /\ UNCHANGED <<LAYER_UIDS, calls, auto_named, built, input, mask, outputs, concVars>>

\* layer(x) has ended with r, with m the draw of the dropout
Ended(x, m, r) ==
  /\ last' = Last("invoke", NoArgs, r.raised, r.events)
  /\ input' = x
  /\ mask' = m
  /\ outputs' = IF r.raised = "" THEN r.ret ELSE NoTensor
  /\ UNCHANGED <<LAYER_UIDS, calls, auto_named, built, self, concVars>>

\* layer(x), with m the draw of the dropout
Invoked(x, m) == Ended(x, m, Invocation(self, x, m))

Invoke ==
  /\ self # NoLayer
  /\ \E x \in SampleInputs : Invoked(x, Ones(Len(x.data)))

Next ==
  \/ ConstructLayer
  \/ ConstructDense
  \/ ConstructGCN
  \/ ConstructMLPDecoder
  \/ SetSparseInputs
  \/ Invoke

Spec == Init /\ [][Next]_vars

(* --------------------- concurrent construction (ConcSpec) -------------- *)
\* Two execution contexts construct layers without a name and without a lock.
\* A context switch can fall between any two accesses of _LAYER_UIDS that
\* get_layer_uid makes: the membership test, the store of 1, the read and the
\* store of the augmented assignment, and the read of the value returned.
ConcClasses == {"Dense", "GCN"}

MadeBy(c) == { m \in made : m.ctx = c }
seqVars == <<calls, auto_named, built, self, last, input, mask, outputs>>

\* Layer.__init__ reaches name = layer + '_' + str(get_layer_uid(layer))
Begin(c, cls) ==
  /\ pc[c] = "idle"
  /\ Cardinality(MadeBy(c)) < MaxPerThread
  /\ pc' = [pc EXCEPT ![c] = "test"]
  /\ local' = [local EXCEPT ![c] = [cls |-> cls, layer_name |-> lower(ClassName(cls)),
                                    read |-> 0]]
  /\ overlapped' = (overlapped \/ \E d \in Contexts : d # c /\ pc[d] # "idle")
  /\ UNCHANGED <<LAYER_UIDS, made, seqVars>>

\* self.name = name, with the uid the call returned
Named(c, uid) ==
  made' = made \cup {[ctx |-> c, k |-> Cardinality(MadeBy(c)) + 1, cls |-> local[c].cls,
                      name |-> AutoName(local[c].layer_name, uid)]}

\* if layer_name not in _LAYER_UIDS:
Test(c) ==
  /\ pc[c] = "test"
  /\ pc' = [pc EXCEPT ![c] = IF IsNew(LAYER_UIDS, local[c].layer_name)
                             THEN "store_one" ELSE "read"]
  /\ UNCHANGED <<LAYER_UIDS, local, made, overlapped, seqVars>>

\* _LAYER_UIDS[layer_name] = 1; return 1
StoreOne(c) ==
  /\ pc[c] = "store_one"
  /\ LAYER_UIDS' = SetItem(LAYER_UIDS, local[c].layer_name, 1)
  /\ Named(c, 1)
  /\ pc' = [pc EXCEPT ![c] = "idle"]
  /\ UNCHANGED <<local, overlapped, seqVars>>

\* _LAYER_UIDS[layer_name] += 1 : the read
Read(c) ==
  /\ pc[c] = "read"
  /\ local' = [local EXCEPT ![c].read = LAYER_UIDS[local[c].layer_name]]
  /\ pc' = [pc EXCEPT ![c] = "store"]
  /\ UNCHANGED <<LAYER_UIDS, made, overlapped, seqVars>>

\* _LAYER_UIDS[layer_name] += 1 : the store
Store(c) ==
  /\ pc[c] = "store"
  /\ LAYER_UIDS' = SetItem(LAYER_UIDS, local[c].layer_name, Increment(local[c].read))
  /\ pc' = [pc EXCEPT ![c] = "return"]
  /\ UNCHANGED <<local, made, overlapped, seqVars>>

\* return _LAYER_UIDS[layer_name]
Return(c) ==
  /\ pc[c] = "return"
  /\ Named(c, LAYER_UIDS[local[c].layer_name])
  /\ pc' = [pc EXCEPT ![c] = "idle"]
  /\ UNCHANGED <<LAYER_UIDS, local, overlapped, seqVars>>

NextConc ==
  \E c \in Contexts :
    \/ \E cls \in ConcClasses : Begin(c, cls)
    \/ Test(c)
    \/ StoreOne(c)
    \/ Read(c)
    \/ Store(c)
    \/ Return(c)

ConcSpec == Init /\ [][NextConc]_vars

(* ------------- one layer, trained and invoked (the numeric models) ----- *)
\* the values a parameter entry takes under the optimizer
ParamVals == {-1, 0, 1}
\* node features: 2 rows, 2 features
NumInputs == TensorsOf(<<2, 2>>, {-1, 2})

\* the state after one constructor call, r, has returned
InitAfter(cls, init, r) ==
  /\ LAYER_UIDS = r.uids
  /\ calls = <<>>
  /\ auto_named = <<[cls |-> cls, name |-> r.self.name]>>
  /\ built = 1
  /\ self = r.self
  /\ last = Last("construct", [cls |-> cls, kwargs |-> NoKwargs, init |-> init],
                 r.raised, r.events)
  /\ input = NoTensor
  /\ mask = NoTensor
  /\ outputs = NoTensor
  /\ InitConc

\* the parameter at position i of self.vars is the list of GCN weights
IsWeightList(i) == self.cls = "GCN" /\ self.vars[i].key = "weights"

\* the external optimizer moves one entry of one parameter by one
OptimizeStep ==
  /\ self # NoLayer
  /\ \E i \in 1..Len(self.vars), delta \in {-1, 1} :
       IF IsWeightList(i)
       THEN \E k \in 1..Len(self.vars[i].val) :
              \E p \in 1..Len(self.vars[i].val[k].data) :
                /\ self.vars[i].val[k].data[p] + delta \in ParamVals
                /\ self' = [self EXCEPT !.vars[i].val[k].data[p] = @ + delta,
                                        !.weights[k].data[p] = @ + delta]
       ELSE \E p \in 1..Len(self.vars[i].val.data) :
              /\ self.vars[i].val.data[p] + delta \in ParamVals
              /\ self' = [self EXCEPT !.vars[i].val.data[p] = @ + delta]
  /\ last' = Last("optimize", NoArgs, "", <<>>)
  /\ input' = NoTensor
  /\ mask' = NoTensor
  /\ outputs' = NoTensor
  /\ UNCHANGED <<LAYER_UIDS, calls, auto_named, built, concVars>>

\* the draws of the dropout for an input of n entries
Masks(n) ==
  IF "dropout" \in DOMAIN self /\ self.dropout # 0 THEN [1..n -> {0, 1}] ELSE {Ones(n)}

\* the forward pass that follows construction or an optimizer step
Forward(inputs) ==
  /\ self # NoLayer
  /\ last.op # "invoke"
  /\ \E x \in inputs : \E m \in Masks(Len(x.data)) : Invoked(x, m)

ForwardNum == Forward(NumInputs)
ForwardSample == Forward(SampleInputs)

\* Dense(2, 1, True, dropout=..., bias=..., batch_norm=...)
InitDense ==
  \E bias \in BOOLEAN, batch_norm \in BOOLEAN, dropout \in {0, 50} :
    InitAfter("Dense", "",
              Dense_init(2, 1, TRUE, dropout, "relu", bias, batch_norm, NoKwargs, <<>>, 0))

NextDense == OptimizeStep \/ ForwardNum

DenseSpec == InitDense /\ [][NextDense]_vars

\* support lists: one support, or one of the first two followed by any
SupportLists ==
  { <<Adjacencies[i]>> : i \in 1..Len(Adjacencies) } \cup
  { <<Adjacencies[i], Adjacencies[j]>> : i \in 1..2, j \in 1..Len(Adjacencies) }

\* GCN(2, 1, support, len(support), True), plain or with bias and relu
InitGCN ==
  \E support \in SupportLists, plain \in BOOLEAN :
    InitAfter("GCN", "def",
              GCN_init(2, 1, support, Len(support), TRUE, 0,
                       IF plain THEN "identity" ELSE "relu", ~plain, FALSE, "def",
                       NoKwargs, <<>>, 0))

NextGCN == OptimizeStep \/ ForwardNum

GCNSpec == InitGCN /\ [][NextGCN]_vars

\* lists of n node indices
IndexLists(n) == [1..n -> {0, 1}]

\* MLPDecoder(num_classes, r_indices, c_indices, 2, n_out=...)
InitDecoder ==
  \E n \in 1..MaxPairs, n_out \in 1..2 :
    \E r_indices \in IndexLists(n), c_indices \in IndexLists(n) :
      InitAfter("MLPDecoder", "",
                MLPDecoder_init(2, r_indices, c_indices, 2, 0, "identity", n_out, FALSE,
                                NoKwargs, <<>>, 0))

NextDecoder == OptimizeStep \/ ForwardSample

DecoderSpec == InitDecoder /\ [][NextDecoder]_vars

(* ------------------------------ claims --------------------------------- *)
\* reading a layer name back: the text before and after the last '_'
LastUnderscore(s) ==
  CHOOSE i \in 1..Len(s) : s[i] = "_" /\ \A j \in (i + 1)..Len(s) : s[j] # "_"
HasUnderscore(s) == \E i \in 1..Len(s) : s[i] = "_"
NamePrefix(s) == SubSeq(s, 1, LastUnderscore(s) - 1)
NameSuffix(s) == SubSeq(s, LastUnderscore(s) + 1, Len(s))
IsDigits(s) == Len(s) > 0 /\ \A i \in 1..Len(s) : \E d \in 1..10 : DigitChars[d] = s[i]
DigitValue(c) == (CHOOSE d \in 1..10 : DigitChars[d] = c) - 1
RECURSIVE ParseInt(_)
ParseInt(s) ==
  IF s = <<>> THEN 0
  ELSE 10 * ParseInt(SubSeq(s, 1, Len(s) - 1)) + DigitValue(s[Len(s)])

\* calls of get_layer_uid with name n among the first k calls
CountUpTo(k, n) == Cardinality({ j \in 1..k : calls[j].name = n })

\* C1 (registry model): the k-th call of get_layer_uid made with a name returns
\* k, whatever calls with other names come in between; the dictionary holds,
\* for every name called, the number of calls made with it and no other key;
\* a call leaves the counters of the other names as they were, and no counter
\* decreases or disappears.
C1_Returns ==
  \A k \in 1..Len(calls) : calls[k].ret = CountUpTo(k, calls[k].name)
C1_Registry ==
  /\ DOMAIN LAYER_UIDS = { calls[k].name : k \in 1..Len(calls) }
  /\ \A n \in DOMAIN LAYER_UIDS : LAYER_UIDS[n] = CountUpTo(Len(calls), n)
C1_Step ==
  \A n \in DOMAIN LAYER_UIDS :
    /\ n \in DOMAIN LAYER_UIDS'
    /\ LAYER_UIDS'[n] >= LAYER_UIDS[n]
    /\ (Len(calls') = Len(calls) + 1 /\ calls'[Len(calls')].name # n)
         => LAYER_UIDS'[n] = LAYER_UIDS[n]
C1_Theorem == [](C1_Returns /\ C1_Registry) /\ [][C1_Step]_vars

\* a name called a second time after a call with another name, returning 2
C1_Witness ==
  \E i, j, k \in 1..Len(calls) :
    /\ i < j /\ j < k
    /\ calls[i].name = calls[k].name
    /\ calls[j].name # calls[i].name
    /\ calls[k].ret = 2

\* C2: any two layers of one class constructed without a name have different
\* names, both <lowercased class name>_<digits>, that differ in the digits; and
\* the digits of a newly named layer read as the value get_layer_uid returns
\* for the lowercased class name at that construction, which is the counter
\* the registry then holds.
C2_Distinct ==
  \A i, j \in 1..Len(auto_named) :
    (i < j /\ auto_named[i].cls = auto_named[j].cls) =>
      LET a == auto_named[i].name
          b == auto_named[j].name
      IN  /\ a # b
          /\ HasUnderscore(a) /\ HasUnderscore(b)
          /\ NamePrefix(a) = lower(ClassName(auto_named[i].cls))
          /\ NamePrefix(b) = NamePrefix(a)
          /\ IsDigits(NameSuffix(a)) /\ IsDigits(NameSuffix(b))
          /\ ParseInt(NameSuffix(a)) # ParseInt(NameSuffix(b))
C2_Step ==
  Len(auto_named') = Len(auto_named) + 1 =>
    LET e   == auto_named'[Len(auto_named')]
        key == lower(ClassName(e.cls))
    IN  /\ HasUnderscore(e.name)
        /\ NamePrefix(e.name) = key
        /\ IsDigits(NameSuffix(e.name))
        /\ ParseInt(NameSuffix(e.name)) = get_layer_uid(LAYER_UIDS, key).ret
        /\ ParseInt(NameSuffix(e.name)) = LAYER_UIDS'[key]
C2_Theorem == []C2_Distinct /\ [][C2_Step]_vars

\* two layers of one class, both named by the registry
C2_Witness ==
  \E i, j \in 1..Len(auto_named) : i < j /\ auto_named[i].cls = auto_named[j].cls

\* C3, as claimed: no GCN instance exists whose support list and weight list
\* differ in length (a construction with len(support) # num_support is rejected).
C3_Claim ==
  self.cls = "GCN" => Len(self.support) = Len(self.weights)

BadKwargs(a) == \E k \in a.kwargs.keys : k \notin {"name", "logging"}
BadInit(a) == a.cls = "GCN" /\ a.init \notin {"def", "he"}
NoVariableEvent(events) == \A i \in 1..Len(events) : events[i].kind # "variable"

\* C5: a constructor call with an option other than name and logging, or a GCN
\* constructor call with an init other than "def" and "he", raises the
\* assertion error; the caller receives no instance and no parameter tensor has
\* been created.
C5_Step ==
  (built' = built + 1 /\ (BadKwargs(last'.args) \/ BadInit(last'.args))) =>
    /\ last'.raised = "AssertionError"
    /\ self' = self
    /\ auto_named' = auto_named
    /\ NoVariableEvent(last'.events)
C5_Theorem == [][C5_Step]_vars

\* a GCN constructor call with recognized options and an unknown init has failed
C5_Witness ==
  /\ last.op = "construct"
  /\ BadInit(last.args) /\ ~BadKwargs(last.args)
  /\ last.raised = "AssertionError"

HistogramsIn(ev, lo, hi) == { i \in lo..hi : ev[i].kind = "histogram" }

\* C9: an invocation that returns gives back the result of the core
\* computation; its events are the core computation, before it one input
\* histogram exactly when logging is on and the layer is a Dense or its
\* sparse_inputs flag is clear, after it one output histogram exactly when
\* logging is on, and nothing else.  Without logging no operation emits a
\* histogram.  _log_vars runs at most once in a construction and never
\* elsewhere, only with logging on, after every parameter is created; Dense,
\* GCN and MLPDecoder run it exactly when logging is on.
C9_Invoke ==
  (last.op = "invoke" /\ last.raised = "") =>
    LET ev    == last.events
        logIn == self.logging /\ (self.cls = "Dense" \/ ~self.sparse_inputs)
        core  == { i \in 1..Len(ev) : ev[i].kind = "_call" }
    IN  /\ Cardinality(core) = 1
        /\ \A i \in 1..Len(ev) : ev[i].kind \in {"_call", "histogram"}
        /\ LET c == CHOOSE i \in core : TRUE
           IN  /\ Cardinality(HistogramsIn(ev, 1, c - 1)) = IF logIn THEN 1 ELSE 0
               /\ \A i \in HistogramsIn(ev, 1, c - 1) : ev[i].tag = "/input"
               /\ Cardinality(HistogramsIn(ev, c + 1, Len(ev)))
                    = IF self.logging THEN 1 ELSE 0
               /\ \A i \in HistogramsIn(ev, c + 1, Len(ev)) :
                    ev[i].tag \in {"/outputs", "/outputs_n"}
        /\ outputs = Core(self, input, mask)
C9_Quiet ==
  /\ (last.op = "invoke" /\ ~self.logging) =>
       HistogramsIn(last.events, 1, Len(last.events)) = {}
  /\ (last.op = "construct" /\ last.raised = "" /\ ~self.logging) =>
       HistogramsIn(last.events, 1, Len(last.events)) = {}
  /\ (last.op = "construct" /\ last.raised # "") =>
       HistogramsIn(last.events, 1, Len(last.events)) = {}
C9_LogVars ==
  LET ev   == last.events
      runs == { i \in 1..Len(ev) : ev[i].kind = "_log_vars" }
  IN  /\ (last.op # "construct" \/ last.raised # "") => runs = {}
      /\ (last.op = "construct" /\ last.raised = "") =>
           /\ Cardinality(runs) <= 1
           /\ runs # {} => self.logging
           /\ (self.cls # "Layer" /\ self.logging) => runs # {}
           /\ \A i \in runs :
                /\ \A j \in (i + 1)..Len(ev) : ev[j].kind = "histogram"
                /\ \A j \in 1..(i - 1) : ev[j].kind # "histogram"
                /\ Len(ev) - i = Len(self.vars)
GcnKey == <<"g", "c", "n">>

\* C10, as claimed: a constructor call that fails leaves the registry as it was.
C10_Claim ==
  [][(built' = built + 1 /\ last'.raised # "") => LAYER_UIDS' = LAYER_UIDS]_vars

\* C10, amended: a constructor call that fails for an unrecognized option
\* leaves the registry as it was, for every class, and so does a GCN call that
\* fails for its init and was given a name; a GCN call that fails for its init
\* and was given no name has advanced the counter of "gcn" by one and left
\* every other counter as it was.
C10_Step ==
  (built' = built + 1 /\ last'.raised # "") =>
    IF BadInit(last'.args) /\ ~BadKwargs(last'.args) /\ ~NameGiven(last'.args.kwargs)
    THEN /\ DOMAIN LAYER_UIDS' = DOMAIN LAYER_UIDS \cup {GcnKey}
         /\ LAYER_UIDS'[GcnKey] =
              IF GcnKey \in DOMAIN LAYER_UIDS THEN LAYER_UIDS[GcnKey] + 1 ELSE 1
         /\ \A n \in DOMAIN LAYER_UIDS : n # GcnKey => LAYER_UIDS'[n] = LAYER_UIDS[n]
    ELSE LAYER_UIDS' = LAYER_UIDS
C10_Amended == [][C10_Step]_vars

\* the first GCN the registry names is gcn_2: the uid 1 went to a call that failed
C10_Witness ==
  /\ \E i \in 1..Len(auto_named) : auto_named[i].name = GcnKey \o <<"_", "2">>
  /\ \A i \in 1..Len(auto_named) : auto_named[i].name # GcnKey \o <<"_", "1">>

\* C4 (concurrent model): as long as no get_layer_uid call began while another
\* was in progress, any two layers of one class carry different names; the
\* witness is a run in which the calls interleave and two layers of one class,
\* constructed by different contexts, carry the same name.
C4_Theorem ==
  (~overlapped) =>
    \A a, b \in made : (a # b /\ a.cls = b.cls) => a.name # b.name

\* two contexts have each named a layer of one class, with one and the same name
C4_Witness ==
  \E a, b \in made : a.ctx # b.ctx /\ a.cls = b.cls /\ a.name = b.name

\* the dense matrix a sparse tensor stands for
ToDense(sp) ==
  Tensor(sp.dense_shape,
         [p \in 1..Product(sp.dense_shape) |->
            LET i == (p - 1) \div sp.dense_shape[2]
                j == (p - 1) % sp.dense_shape[2]
                hits == { e \in 1..Len(sp.entries) :
                            sp.entries[e][1] = i /\ sp.entries[e][2] = j }
            IN  IF hits = {} THEN 0 ELSE sp.entries[CHOOSE e \in hits : TRUE][3]])
\* a + b, element-wise
AddT(a, b) == Tensor(a.shape, [p \in 1..Len(a.data) |-> a.data[p] + b.data[p]])

RECURSIVE SupportSum(_, _, _, _)
\* A_i (X W_i) summed over i = from .. Len(supports), all products dense
SupportSum(supports, weights, x, from) ==
  LET term == tf_matmul(ToDense(supports[from]), tf_matmul(x, weights[from]))
  IN  IF from = Len(supports) THEN term
      ELSE AddT(term, SupportSum(supports, weights, x, from + 1))

\* C6 (GCN model): with zero dropout the sum z_n of GCN._call is the sum over i
\* of A_i (X W_i), support i with weight i, and the output is that sum, or with
\* bias and relu the relu of the sum plus the bias; with support = [Identity, A],
\* no bias, the identity activation and no normalization the output is
\* X W_0 + (A X) W_1.
C6_General ==
  (last.op = "invoke" /\ last.raised = "") =>
    LET z == SupportSum(self.support, self.weights, input, 1)
    IN  /\ GCN_z(self, input, mask) = z
        /\ outputs = IF self.bias
                     THEN Act(self.act, BiasAdd(z, Get(self.vars, "bias_n")))
                     ELSE Act(self.act, z)
C6_Canonical ==
  ( /\ last.op = "invoke" /\ last.raised = ""
    /\ Len(self.support) = 2 /\ self.support[1] = Identity
    /\ ~self.bias /\ self.act = "identity" /\ self.dropout = 0 /\ ~self.batch_norm ) =>
    outputs = AddT(tf_matmul(input, self.weights[1]),
                   tf_matmul(tf_matmul(ToDense(self.support[2]), input), self.weights[2]))
C7_Claim ==
  ( /\ last.op = "invoke" /\ last.raised = ""
    /\ self.n_out = 1 /\ Len(self.r_indices) >= 1 ) =>
    /\ Rank(outputs) = Rank(MLPDecoder_product(self, input, mask)) - 1
    /\ Rank(outputs) = 1
    /\ outputs.shape[1] = Len(self.r_indices)

\* the product of the dropped-out input with the weights of a Dense layer
DenseProduct ==
  tf_matmul(tf_nn_dropout(input, 100 - self.dropout, mask), Get(self.vars, "weights"))

\* C8 (Dense model): with batch_norm set the output is the one the same layer
\* gives with bias = false; the bias is added exactly when bias is set and
\* batch_norm is not; the output is the activation of the product of the
\* dropped-out input (plus the bias, when added), normalized last when
\* batch_norm is set.
C8_Theorem ==
  (last.op = "invoke" /\ last.raised = "") =>
    LET biased   == Act(self.act, BiasAdd(DenseProduct, Get(self.vars, "node_bias")))
        unbiased == Act(self.act, DenseProduct)
    IN  /\ (self.batch_norm /\ self.bias) =>
             outputs = Dense_call([self EXCEPT !.bias = FALSE], input, mask)
        /\ (self.bias /\ ~self.batch_norm) => outputs = biased
        /\ (~self.bias /\ ~self.batch_norm) => outputs = unbiased
        /\ self.batch_norm =>
             outputs = tf_layers_batch_normalization(unbiased, self.is_train)

\* a Dense layer with bias and batch_norm, half of the input dropped, and a
\* bias that would have changed the output had it been added
C8_Witness ==
  /\ last.op = "invoke" /\ last.raised = ""
  /\ self.bias /\ self.batch_norm /\ self.dropout = 50
  /\ \E p \in 1..Len(mask) : mask[p] = 0
  /\ \E p \in 1..Len(mask) : mask[p] = 1
  /\ Act(self.act, BiasAdd(DenseProduct, Get(self.vars, "node_bias")))
       # Act(self.act, DenseProduct)

====
